---- MODULE Spec2Model ----
(***************************************************************************)
(* A model of random_forest_pyspark.py: the fare-prediction pipeline of    *)
(* __main__ (load and validate, distance, time buckets, zones, the five    *)
(* StringIndexer fits, the one-hot transform, the random split, the        *)
(* regressor and the RMSE), and of direct calls of its pure functions.     *)
(*                                                                         *)
(* Units.  Fares, predictions and passenger counts are whole numbers.      *)
(* A coordinate is the decimal literal of the CSV in tenths of a degree    *)
(* (-799 is the text "-79.9"); the double the schema parses it to is       *)
(* modelled by DoubleErr.  Python 3 arithmetic is assumed (1/2 = 0.5).     *)
(* A nullable column value is <<>> (null) or <<v>>.                        *)
(***************************************************************************)
EXTENDS Integers, Sequences, FiniteSets, Bags, TLC

VARIABLES
    entry,          \* what runs: "main" (the script) or a direct call of a function
    args,           \* the arguments of a direct call
    result,         \* <<>> before a direct call returns, <<value>> after
    pc,             \* position in __main__
    raw,            \* the rows of the CSV file, in file order
    df,             \* the DataFrame of __main__
    counts,         \* per categorical column: the label counts its fit aggregated
    labels,         \* per categorical column: the fitted StringIndexerModel labels
    data,           \* the RDD of LabeledPoint that encode_df returns
    trainingData,   \* first part of randomSplit
    testData,       \* second part of randomSplit
    predictions,    \* rf_model.predict over testData
    rmse            \* what __main__ prints

vars == <<entry, args, result, pc, raw, df, counts, labels, data,
          trainingData, testData, predictions, rmse>>

(***************************************************************************)
(* Bounds of the model.                                                    *)
(***************************************************************************)
MaxRawRows == 2     \* longest file drawn from all rows, malformed ones included
MaxTrips == 3       \* longest file drawn from the well-formed trips
MaxCallLen == 2     \* longest sequence handed to a direct call of compute_rmse
HourSlack == 3      \* how far outside 0..23 a direct call of get_hour goes

(***************************************************************************)
(* Nullable values and small helpers.                                      *)
(***************************************************************************)
NULL == <<>>
Some(v) == <<v>>
Val(o) == o[1]

Range(s) == {s[i] : i \in DOMAIN s}

SeqsUpTo(S, n) == UNION {[1..k -> S] : k \in 0..n}

Abs(x) == IF x < 0 THEN -x ELSE x

RECURSIVE PowMod(_, _, _)
PowMod(b, e, m) == IF e = 0 THEN 1 % m ELSE (b * PowMod(b, e - 1, m)) % m

RECURSIVE SqrtSearch(_, _, _)
SqrtSearch(v, lo, hi) ==
    IF lo >= hi THEN lo
    ELSE LET mid == (lo + hi + 1) \div 2
         IN IF mid * mid <= v THEN SqrtSearch(v, mid, hi)
                              ELSE SqrtSearch(v, lo, mid - 1)

\* floor of the square root: x ** (1/2) on the fixed-point scale of its caller
Isqrt(v) == SqrtSearch(v, 0, 46340)

(***************************************************************************)
(* Doubles.  DoubleType() parses the decimal text n/10 to the nearest      *)
(* IEEE double; a double with 53 significant bits does not fit the         *)
(* integers of the checker, so the model keeps the decimal n and the       *)
(* rounding error of the parse, which is exact and small:                  *)
(*   for 2^b <= |n/10| < 2^(b+1) the doubles are the multiples of          *)
(*   ulp = 2^-(52-b), and |n|/10 = (|n| * 2^(51-b) / 5) ulp, so the        *)
(*   nearest double lies r/5 ulp below (r <= 2) or (5-r)/5 ulp above       *)
(*   (r >= 3), r = (|n| * 2^(51-b)) mod 5.                                 *)
(* A Dbl is [t, e]: the value t/10 + e * U, U = 2^-47 / 5.                  *)
(***************************************************************************)
RECURSIVE Log2Floor(_)
Log2Floor(k) == IF k <= 1 THEN 0 ELSE 1 + Log2Floor(k \div 2)

\* rounding error of double(|n|/10) as a magnitude, in fifths of its ulp
DoubleErr(n) ==
    LET b == Log2Floor(Abs(n) \div 10)
        r == (Abs(n) * PowMod(2, 51 - b, 5)) % 5
    IN IF r <= 2 THEN -r ELSE 5 - r

\* the double a coordinate literal parses to (|n/10| in [32, 128))
ParseDouble(n) ==
    LET b == Log2Floor(Abs(n) \div 10)
        scale == IF b = 6 THEN 2 ELSE 1      \* ulp 2^-46 = 2 * 2^-47
        sign == IF n < 0 THEN -1 ELSE 1
    IN [t |-> n, e |-> sign * scale * DoubleErr(n)]

\* x + k for an integer k with |x|/2 <= |k| <= 2|x| and opposite sign: the
\* difference is a double, so the addition is exact (Sterbenz)
DAddInt(x, k) == [t |-> x.t + 10 * k, e |-> x.e]

\* x * 10 for 0 <= x <= 10: t + 10e U is a multiple of 2^-46 below 128, a
\* double, so the product is exact
DMul10(x) == [t |-> 10 * x.t, e |-> 10 * x.e]

\* Python int(): truncation toward zero of the double t/10 + e U
PyInt(x) ==
    LET q == IF x.t >= 0 THEN x.t \div 10 ELSE -((-x.t) \div 10)
        exact == x.t = 10 * q
    IN IF exact /\ q > 0 /\ x.e < 0 THEN q - 1
       ELSE IF exact /\ q < 0 /\ x.e > 0 THEN q + 1
       ELSE q

(***************************************************************************)
(* Timestamps.  pickup_datetime is the text "yyyy-MM-dd HH:mm:ss UTC",     *)
(* kept as [y, mo, d, h]; minutes and seconds reach no later column.       *)
(* The rows drawn below fall where America/New_York is on standard time.   *)
(***************************************************************************)
EstOffsetHours == 5

\* days since 1970-01-01 of a civil date (proleptic Gregorian calendar)
DaysFromCivil(y, mo, d) ==
    LET yy == IF mo <= 2 THEN y - 1 ELSE y
        era == yy \div 400
        yoe == yy - era * 400
        mp == IF mo > 2 THEN mo - 3 ELSE mo + 9
        doy == (153 * mp + 2) \div 5 + d - 1
        doe == yoe * 365 + yoe \div 4 - yoe \div 100 + doy
    IN era * 146097 + doe - 719468

CivilFromDays(z0) ==
    LET z == z0 + 719468
        era == z \div 146097
        doe == z - era * 146097
        yoe == (doe - doe \div 1460 + doe \div 36524 - doe \div 146096) \div 365
        doy == doe - (365 * yoe + yoe \div 4 - yoe \div 100)
        mp == (5 * doy + 2) \div 153
        d == doy - (153 * mp + 2) \div 5 + 1
        mo == IF mp < 10 THEN mp + 3 ELSE mp - 9
        y == yoe + era * 400 + (IF mo <= 2 THEN 1 ELSE 0)
    IN [y |-> y, mo |-> mo, d |-> d]

DayNames == <<"Sun", "Mon", "Tue", "Wed", "Thu", "Fri", "Sat">>

\* to_timestamp: hours since the epoch of the UTC text
to_timestamp(s) == DaysFromCivil(s.y, s.mo, s.d) * 24 + s.h

\* from_utc_timestamp(_, 'America/New_York') on standard time
from_utc_timestamp(t) == t - EstOffsetHours

hour(t) == t % 24

year(t) == CivilFromDays(t \div 24).y

\* date_format(_, 'E')
date_format_E(t) == DayNames[((t \div 24 + 4) % 7) + 1]

(***************************************************************************)
(* The rows a file is drawn from.                                          *)
(***************************************************************************)
RawFields == {"key", "fare_amount", "pickup_datetime", "pickup_longitude",
              "pickup_latitude", "dropoff_longitude", "dropoff_latitude",
              "passenger_count"}

LonFields == {"pickup_longitude", "dropoff_longitude"}
LatFields == {"pickup_latitude", "dropoff_latitude"}

DtA == [y |-> 2009, mo |-> 1, d |-> 1, h |-> 3]     \* Wed 2008-12-31 22h local
DtB == [y |-> 2009, mo |-> 1, d |-> 5, h |-> 13]    \* Mon 2009-01-05 08h local

BaseRow ==
    [key |-> Some("k"), fare_amount |-> Some(5), pickup_datetime |-> Some(DtA),
     pickup_longitude |-> Some(-740), pickup_latitude |-> Some(407),
     dropoff_longitude |-> Some(-700), dropoff_latitude |-> Some(450),
     passenger_count |-> Some(1)]

\* rows that pass every check
Trips ==
    { BaseRow,
      [BaseRow EXCEPT !.pickup_datetime = Some(DtB), !.fare_amount = Some(0)],
      [BaseRow EXCEPT !.pickup_longitude = Some(-799), !.pickup_latitude = Some(390)],
      [BaseRow EXCEPT !.pickup_longitude = Some(-798), !.pickup_latitude = Some(391)],
      [BaseRow EXCEPT !.dropoff_longitude = Some(-800), !.dropoff_latitude = Some(390),
                      !.passenger_count = Some(10)] }

\* rows that fail exactly one check
BadRows ==
    {[BaseRow EXCEPT ![f] = NULL] : f \in {"key", "pickup_datetime", "passenger_count"}}
    \cup {[BaseRow EXCEPT !.fare_amount = Some(-1)]}
    \cup {[BaseRow EXCEPT ![f] = Some(v)] : f \in LonFields, v \in {-801, -699}}
    \cup {[BaseRow EXCEPT ![f] = Some(v)] : f \in LatFields, v \in {389, 451}}
    \cup {[BaseRow EXCEPT !.passenger_count = Some(v)] : v \in {0, 11}}

Files == SeqsUpTo(Trips \cup BadRows, MaxRawRows) \cup SeqsUpTo(Trips, MaxTrips)

(***************************************************************************)
(* load_and_process_data                                                   *)
(***************************************************************************)
\* df.na.drop(): a row with a null in any column goes
NaDrop(r) == \A f \in RawFields : r[f] # NULL

\* a comparison with null is null, and filter keeps only true
Ge(o, c) == o # NULL /\ Val(o) >= c
Le(o, c) == o # NULL /\ Val(o) <= c
Gt(o, c) == o # NULL /\ Val(o) > c

FareFilter(r) == Ge(r.fare_amount, 0)

\* slip: the dropoff point is not checked
BoxFilter_pickup_only(r) ==
    /\ Le(r.pickup_longitude, -700) /\ Ge(r.pickup_longitude, -800)
    /\ Le(r.pickup_latitude, 450) /\ Ge(r.pickup_latitude, 390)

\* the parse to double is monotone and -80, -70, 39, 45 are doubles, so the
\* comparisons of the doubles are those of the decimals
BoxFilter(r) ==
    /\ Le(r.pickup_longitude, -700) /\ Ge(r.pickup_longitude, -800)
    /\ Le(r.dropoff_longitude, -700) /\ Ge(r.dropoff_longitude, -800)
    /\ Le(r.pickup_latitude, 450) /\ Ge(r.pickup_latitude, 390)
    /\ Le(r.dropoff_latitude, 450) /\ Ge(r.dropoff_latitude, 390)

\* slip: >= for >
PassengerFilter_from_zero(r) == Ge(r.passenger_count, 0) /\ Le(r.passenger_count, 10)

PassengerFilter(r) == Gt(r.passenger_count, 0) /\ Le(r.passenger_count, 10)

TimeColumns(r) ==
    LET utc == to_timestamp(Val(r.pickup_datetime))
        local == from_utc_timestamp(utc)
    IN r @@ [utc_time |-> utc, local_time |-> local, local_hour |-> hour(local),
             local_year |-> year(local), pickup_dow |-> date_format_E(local)]

load_and_process_data(rows) ==
    LET d1 == SelectSeq(rows, NaDrop)
        d2 == SelectSeq(d1, FareFilter)
        d3 == SelectSeq(d2, BoxFilter)
        d4 == SelectSeq(d3, PassengerFilter)
    IN [i \in DOMAIN d4 |-> TimeColumns(d4[i])]

(***************************************************************************)
(* Derived features                                                        *)
(***************************************************************************)
\* in thousandths of a degree, rounded down
compute_distance(lon1, lat1, lon2, lat2) ==
    Isqrt(((lon1 - lon2) * (lon1 - lon2) + (lat1 - lat2) * (lat1 - lat2)) * 10000)

create_dist_feature(d) ==
    [i \in DOMAIN d |->
        d[i] @@ [dist |-> compute_distance(Val(d[i].pickup_longitude),
                                           Val(d[i].pickup_latitude),
                                           Val(d[i].dropoff_longitude),
                                           Val(d[i].dropoff_latitude))]]

\* slip: <= for < at the first boundary
get_hour_inclusive(x) ==
    IF x >= 0 /\ x <= 3 THEN "hour_0"
    ELSE IF x >= 3 /\ x < 6 THEN "hour_1"
    ELSE IF x >= 6 /\ x < 9 THEN "hour_2"
    ELSE IF x >= 9 /\ x < 12 THEN "hour_3"
    ELSE IF x >= 12 /\ x < 15 THEN "hour_4"
    ELSE IF x >= 15 /\ x < 18 THEN "hour_5"
    ELSE IF x >= 18 /\ x < 21 THEN "hour_6"
    ELSE IF x >= 21 /\ x < 24 THEN "hour_7"
    ELSE "hour_8"

get_hour(x) ==
    IF x >= 0 /\ x < 3 THEN "hour_0"
    ELSE IF x >= 3 /\ x < 6 THEN "hour_1"
    ELSE IF x >= 6 /\ x < 9 THEN "hour_2"
    ELSE IF x >= 9 /\ x < 12 THEN "hour_3"
    ELSE IF x >= 12 /\ x < 15 THEN "hour_4"
    ELSE IF x >= 15 /\ x < 18 THEN "hour_5"
    ELSE IF x >= 18 /\ x < 21 THEN "hour_6"
    ELSE IF x >= 21 /\ x < 24 THEN "hour_7"
    ELSE "hour_8"

get_year(x) == "year_" \o ToString(x)

create_time_features(d) ==
    [i \in DOMAIN d |->
        d[i] @@ [pickup_hour |-> get_hour(d[i].local_hour),
                 pickup_year |-> get_year(d[i].local_year)]]

\* lon and lat are the doubles of the row
get_zone(lon, lat) ==
    LET zone_number == PyInt(DMul10(DAddInt(lon, 80))) + PyInt(DMul10(DAddInt(lat, -39)))
    IN "zone_" \o ToString(zone_number)

create_zone_features(d) ==
    [i \in DOMAIN d |->
        d[i] @@ [pickup_zone |-> get_zone(ParseDouble(Val(d[i].pickup_longitude)),
                                          ParseDouble(Val(d[i].pickup_latitude))),
                 dropoff_zone |-> get_zone(ParseDouble(Val(d[i].dropoff_longitude)),
                                           ParseDouble(Val(d[i].dropoff_latitude)))]]

(***************************************************************************)
(* encode_df: the five StringIndexer fits, then the pipeline's transform.  *)
(* The library defaults the code relies on: StringIndexer orders labels by *)
(* descending frequency and raises on a label it was not fitted with       *)
(* (handleInvalid = "error"); OneHotEncoder drops the last category        *)
(* (dropLast = True).                                                      *)
(***************************************************************************)
CatCols == <<"pickup_hour", "pickup_year", "pickup_dow", "pickup_zone", "dropoff_zone">>

Column(d, col) == [i \in DOMAIN d |-> d[i][col]]

EmptyCounts == [l \in {} |-> 0]

\* slip: the first row is not counted
CountByValue_skip_first(col) ==
    [l \in {col[i] : i \in 2..Len(col)} |->
        Cardinality({i \in 2..Len(col) : col[i] = l})]

\* the aggregation of StringIndexer.fit: one pass over the column
RECURSIVE CountByValue(_)
CountByValue(col) ==
    IF col = <<>> THEN EmptyCounts
    ELSE LET rest == CountByValue(Tail(col))
             l == Head(col)
         IN IF l \in DOMAIN rest THEN [rest EXCEPT ![l] = @ + 1]
                                 ELSE rest @@ (l :> 1)

Orderings(S) ==
    {s \in [1..Cardinality(S) -> S] : \A i, j \in DOMAIN s : i # j => s[i] # s[j]}

\* slip: least frequent first
FrequencyAsc(c) ==
    {s \in Orderings(DOMAIN c) :
        \A i, j \in DOMAIN s : i < j => c[s[i]] <= c[s[j]]}

\* the label orders a fit may produce: most frequent first; the order of
\* equally frequent labels is the library's (hash order before Spark 3,
\* alphabetical from Spark 3), so any
FrequencyDesc(c) ==
    {s \in Orderings(DOMAIN c) :
        \A i, j \in DOMAIN s : i < j => c[s[i]] >= c[s[j]]}

\* StringIndexerModel.transform of one value: its 0-based position, -1 for
\* a label the model was not fitted with
string_index(lbls, l) ==
    IF l \in Range(lbls) THEN (CHOOSE i \in DOMAIN lbls : lbls[i] = l) - 1 ELSE -1

\* slip: dropLast = False
one_hot_keep_last(idx, card) == [k \in 1..card |-> IF k = idx + 1 THEN 1 ELSE 0]

\* OneHotEncoder: a vector of size card - 1, all zero for the last category
one_hot(idx, card) == [k \in 1..(card - 1) |-> IF k = idx + 1 THEN 1 ELSE 0]

RECURSIVE Concat(_)
Concat(ss) == IF ss = <<>> THEN <<>> ELSE Head(ss) \o Concat(Tail(ss))

\* VectorAssembler over dist, the five vectors, passenger_count
assemble(r, lbls) ==
    <<r.dist>>
    \o Concat([k \in DOMAIN CatCols |->
                 one_hot(string_index(Val(lbls[CatCols[k]]), r[CatCols[k]]),
                         Len(Val(lbls[CatCols[k]])))])
    \o <<Val(r.passenger_count)>>

LabeledPoint(r, lbls) == [label |-> Val(r.fare_amount), features |-> assemble(r, lbls)]

Unseen(d, lbls) ==
    \E i \in DOMAIN d : \E k \in DOMAIN CatCols :
        string_index(Val(lbls[CatCols[k]]), d[i][CatCols[k]]) = -1

(***************************************************************************)
(* train_test_split, train_and_predict_with_rf, compute_rmse               *)
(***************************************************************************)
TrainFraction == 8          \* train_fraction = 0.8, in tenths

DrawValues == {7, 8}        \* the uniform draw of an element, in tenths

RECURSIVE Sample(_, _, _, _)
\* the elements of d whose draw x lies in lo <= x < hi, in their order
Sample(d, draw, lo, hi) ==
    IF d = <<>> THEN <<>>
    ELSE LET n == Len(d)
             front == Sample(SubSeq(d, 1, n - 1), SubSeq(draw, 1, n - 1), lo, hi)
         IN IF lo <= draw[n] /\ draw[n] < hi THEN Append(front, d[n]) ELSE front

\* slip: the first part's range is closed above, so a draw of exactly f is in both
train_test_split_closed(d, draw) ==
    <<Sample(d, draw, 0, TrainFraction + 1), Sample(d, draw, TrainFraction, 10)>>

\* randomSplit([f, 1 - f]): both parts sample with the same seed, so each
\* element has one draw, below f for the first part and from f up for the second
train_test_split(d, draw) ==
    <<Sample(d, draw, 0, TrainFraction), Sample(d, draw, TrainFraction, 10)>>

PredValues == {0, 5}        \* what the regressor may predict

RECURSIVE SumSq(_, _)
\* sum of (i - j)^2 over zip(p, t): zip stops at the shorter sequence
SumSq(p, t) ==
    IF p = <<>> \/ t = <<>> THEN 0
    ELSE (Head(p) - Head(t)) * (Head(p) - Head(t)) + SumSq(Tail(p), Tail(t))

\* the float returned, in thousandths rounded down; 0.0 / 0.0 is nan in numpy
compute_rmse(pred, truths) ==
    IF Len(pred) = 0 THEN [kind |-> "nan", milli |-> 0]
    ELSE [kind |-> "float", milli |-> Isqrt((SumSq(pred, truths) * 1000000) \div Len(pred))]

(***************************************************************************)
(* __main__, one action per statement; encode_df is entered at fit_hour    *)
(* and left after Transform.                                               *)
(***************************************************************************)
Unfitted == [c \in Range(CatCols) |-> NULL]

Init ==
    /\ entry = "main" /\ args = <<>> /\ result = NULL
    /\ pc = "load"
    /\ raw \in Files
    /\ df = <<>>
    /\ counts = Unfitted /\ labels = Unfitted
    /\ data = <<>> /\ trainingData = <<>> /\ testData = <<>>
    /\ predictions = <<>> /\ rmse = NULL

call == <<entry, args, result>>

Load ==
    /\ entry = "main" /\ pc = "load"
    /\ df' = load_and_process_data(raw)
    /\ pc' = "dist"
    /\ UNCHANGED <<call, raw, counts, labels, data, trainingData, testData,
                   predictions, rmse>>

DistFeature ==
    /\ pc = "dist"
    /\ df' = create_dist_feature(df)
    /\ pc' = "time"
    /\ UNCHANGED <<call, raw, counts, labels, data, trainingData, testData,
                   predictions, rmse>>

TimeFeatures ==
    /\ pc = "time"
    /\ df' = create_time_features(df)
    /\ pc' = "zone"
    /\ UNCHANGED <<call, raw, counts, labels, data, trainingData, testData,
                   predictions, rmse>>

ZoneFeatures ==
    /\ pc = "zone"
    /\ df' = create_zone_features(df)
    /\ pc' = "fit_hour"
    /\ UNCHANGED <<call, raw, counts, labels, data, trainingData, testData,
                   predictions, rmse>>

\* StringIndexer(inputCol = col).fit(df)
Fit(col, here, next) ==
    /\ pc = here
    /\ LET c == CountByValue(Column(df, col))
       IN /\ counts' = [counts EXCEPT ![col] = Some(c)]
          /\ \E s \in FrequencyDesc(c) : labels' = [labels EXCEPT ![col] = Some(s)]
    /\ pc' = next
    /\ UNCHANGED <<call, raw, df, data, trainingData, testData, predictions, rmse>>

hour_indexer == Fit("pickup_hour", "fit_hour", "fit_year")

year_indexer == Fit("pickup_year", "fit_year", "fit_dow")

dow_indexer == Fit("pickup_dow", "fit_dow", "fit_pickup_zone")

pickup_zone_indexer == Fit("pickup_zone", "fit_pickup_zone", "fit_dropoff_zone")

dropoff_zone_indexer == Fit("dropoff_zone", "fit_dropoff_zone", "transform")

\* pipeline.fit(df).transform(df) and the map to LabeledPoint
Transform ==
    /\ pc = "transform"
    /\ IF Unseen(df, labels)
       THEN pc' = "failed" /\ data' = data
       ELSE /\ data' = [i \in DOMAIN df |-> LabeledPoint(df[i], labels)]
            /\ pc' = "split"
    /\ UNCHANGED <<call, raw, df, counts, labels, trainingData, testData,
                   predictions, rmse>>

Split ==
    /\ pc = "split"
    /\ \E draw \in [DOMAIN data -> DrawValues] :
          /\ trainingData' = train_test_split(data, draw)[1]
          /\ testData' = train_test_split(data, draw)[2]
    /\ pc' = "train"
    /\ UNCHANGED <<call, raw, df, counts, labels, data, predictions, rmse>>

\* RandomForest.trainRegressor raises on an empty training set; the model it
\* returns and what it predicts are the library's
TrainAndPredict ==
    /\ pc = "train"
    /\ IF trainingData = <<>>
       THEN pc' = "failed" /\ predictions' = predictions
       ELSE /\ predictions' \in [DOMAIN testData -> PredValues]
            /\ pc' = "rmse"
    /\ UNCHANGED <<call, raw, df, counts, labels, data, trainingData, testData, rmse>>

Rmse ==
    /\ pc = "rmse"
    /\ rmse' = Some(compute_rmse(predictions, Column(testData, "label")))
    /\ pc' = "done"
    /\ UNCHANGED <<call, raw, df, counts, labels, data, trainingData, testData,
                   predictions>>

Next ==
    \/ Load
    \/ DistFeature
    \/ TimeFeatures
    \/ ZoneFeatures
    \/ hour_indexer
    \/ year_indexer
    \/ dow_indexer
    \/ pickup_zone_indexer
    \/ dropoff_zone_indexer
    \/ Transform
    \/ Split
    \/ TrainAndPredict
    \/ Rmse

Spec == Init /\ [][Next]_vars

(***************************************************************************)
(* Direct calls of the module's pure functions, by a caller other than     *)
(* __main__ (an importer, a test).                                         *)
(***************************************************************************)
CallValues == {0, 3, 4}

pipeline == <<pc, raw, df, counts, labels, data, trainingData, testData,
              predictions, rmse>>

CallInit ==
    /\ \/ entry = "get_hour" /\ args \in {<<x>> : x \in (0 - HourSlack)..(23 + HourSlack)}
       \/ /\ entry = "compute_rmse"
          /\ args \in SeqsUpTo(CallValues, MaxCallLen) \X SeqsUpTo(CallValues, MaxCallLen)
    /\ result = NULL
    /\ pc = "idle" /\ raw = <<>> /\ df = <<>>
    /\ counts = Unfitted /\ labels = Unfitted
    /\ data = <<>> /\ trainingData = <<>> /\ testData = <<>>
    /\ predictions = <<>> /\ rmse = NULL

CallGetHour ==
    /\ entry = "get_hour" /\ result = NULL
    /\ result' = Some(get_hour(args[1]))
    /\ UNCHANGED <<entry, args, pipeline>>

CallComputeRmse ==
    /\ entry = "compute_rmse" /\ result = NULL
    /\ result' = Some(compute_rmse(args[1], args[2]))
    /\ UNCHANGED <<entry, args, pipeline>>

CallNext ==
    \/ CallGetHour
    \/ CallComputeRmse

CallSpec == CallInit /\ [][CallNext]_vars

(***************************************************************************)
(* Properties                                                              *)
(***************************************************************************)
Loaded == pc \in {"dist", "time", "zone", "fit_hour", "fit_year", "fit_dow",
                  "fit_pickup_zone", "fit_dropoff_zone", "transform", "split",
                  "train", "rmse", "done", "failed"}

Zoned == Loaded /\ pc \notin {"dist", "time", "zone"}

\* encode_df has just returned data
Encoded == pc = "split"

\* what section 3 of the specification asks of a validated record
ValidRecord(r) ==
    /\ \A f \in RawFields : Len(r[f]) = 1
    /\ r.fare_amount[1] >= 0
    /\ r.passenger_count[1] \in 1..10
    /\ \A f \in LonFields : r[f][1] \in -800..-700
    /\ \A f \in LatFields : r[f][1] \in 390..450

RawPart(r) == [f \in RawFields |-> r[f]]

RECURSIVE KeepValid(_)
KeepValid(rows) ==
    IF rows = <<>> THEN <<>>
    ELSE IF ValidRecord(Head(rows)) THEN <<Head(rows)>> \o KeepValid(Tail(rows))
    ELSE KeepValid(Tail(rows))

\* C1: every record left by the validation of load_and_process_data, at every
\* later stage, has no missing field, fare_amount >= 0, passenger_count in
\* 1..10, both longitudes in [-80,-70] and both latitudes in [39,45].
C1_ValidatedRecords ==
    Loaded => \A i \in DOMAIN df : ValidRecord(df[i])

\* a run that dropped a row, kept another and went through every stage
C1_Witness ==
    pc = "done" /\ Len(df) >= 1 /\ Len(df) < Len(raw)

\* C8: validation raises nothing and leaves exactly the rows of the input that
\* pass all four checks, in their original order, with their fields unchanged.
C8_ExactSubsequence ==
    Loaded => LET kept == KeepValid(raw)
              IN /\ Len(df) = Len(kept)
                 /\ \A i \in DOMAIN df : RawPart(df[i]) = kept[i]

\* a file whose first row fails a check and whose second row is kept
C8_Witness ==
    /\ pc = "dist" /\ Len(raw) = 2 /\ Len(df) = 1
    /\ ~ValidRecord(raw[1]) /\ RawPart(df[1]) = raw[2]

\* C2 as stated: compute_rmse on sequences of different lengths fails with
\* ShapeMismatch and returns no number.
C2_ShapeMismatchRaised ==
    (entry = "compute_rmse" /\ result # NULL /\ Len(args[1]) # Len(args[2]))
        => Val(result).kind = "ShapeMismatch"

HourBands == {get_hour(h) : h \in 0..23}

BandHours(b) == {h \in 0..23 : get_hour(h) = b}

Contiguous(S) == \A h \in 0..23 : (\E a, b \in S : a <= h /\ h <= b) => h \in S

\* C3 as stated: get_hour splits 0..23 into exactly 9 contiguous bands of
\* width 3, and returns hour_8 only for an input below 0 or from 24 up.
C3_NineBands ==
    (entry = "get_hour" /\ result # NULL) =>
        /\ Cardinality(HourBands) = 9
        /\ \A b \in HourBands : Cardinality(BandHours(b)) = 3 /\ Contiguous(BandHours(b))
        /\ (Val(result) = "hour_8" => (args[1] < 0 \/ args[1] >= 24))

\* C3 amended: get_hour splits 0..23 into exactly 8 contiguous bands of width
\* 3, hour h getting the label hour_(h div 3), and returns the ninth label
\* hour_8 exactly for an input below 0 or from 24 up.
C3_EightBands ==
    (entry = "get_hour" /\ result # NULL) =>
        /\ Cardinality(HourBands) = 8
        /\ \A b \in HourBands : Cardinality(BandHours(b)) = 3 /\ Contiguous(BandHours(b))
        /\ args[1] \in 0..23 => Val(result) = "hour_" \o ToString(args[1] \div 3)
        /\ Val(result) = "hour_8" <=> (args[1] < 0 \/ args[1] >= 24)

C3_Witness ==
    entry = "get_hour" /\ args[1] = 23 /\ result = Some("hour_7")

\* floor((lon + 80) * 10) + floor((lat - 39) * 10) of the decimals, in tenths
ZoneIndex(lon, lat) == (lon + 800) + (lat - 390)

\* C4 as stated: for every point of the bounding box get_zone returns "zone_"
\* followed by floor((lon+80)*10) + floor((lat-39)*10); zone(-79.9, 39.0) is
\* zone_1 and the cells (-79.8, 39.1) and (-79.7, 39.0) share a label.
C4_ZoneIsFloorSum ==
    Zoned => \A i \in DOMAIN df :
        /\ df[i].pickup_zone =
              "zone_" \o ToString(ZoneIndex(Val(df[i].pickup_longitude),
                                            Val(df[i].pickup_latitude)))
        /\ df[i].dropoff_zone =
              "zone_" \o ToString(ZoneIndex(Val(df[i].dropoff_longitude),
                                            Val(df[i].dropoff_latitude)))

\* the number of distinct labels column k of df holds
Card(k) == Cardinality(Range(Column(df, CatCols[k])))

RECURSIVE SumTo(_, _)
SumTo(W, k) == IF k = 0 THEN 0 ELSE W[k] + SumTo(W, k - 1)

Ones(v, from, width) == Cardinality({p \in 1..width : v[from + p] = 1})

Bits(v, from, width) == \A p \in 1..width : v[from + p] \in {0, 1}

FullWidths == [k \in DOMAIN CatCols |-> Card(k)]

DroppedWidths == [k \in DOMAIN CatCols |-> Card(k) - 1]

\* C5 as stated: in what encode_df returns, every categorical field becomes a one-hot vector as wide as
\* the field has distinct labels, holding exactly one 1, so a feature vector
\* is 1 + (sum of the five cardinalities) + 1 long, in the order distance,
\* hour, year, day of week, pickup zone, dropoff zone, passenger_count.
C5_FullWidthOneHot ==
    Encoded =>
        LET W == FullWidths
            from == [k \in DOMAIN CatCols |-> 1 + SumTo(W, k - 1)]
            total == 1 + SumTo(W, Len(CatCols)) + 1
        IN \A i \in DOMAIN data :
            LET v == data[i].features
            IN /\ Len(v) = total
               /\ v[1] = df[i].dist
               /\ v[Len(v)] = Val(df[i].passenger_count)
               /\ \A k \in DOMAIN CatCols :
                    Bits(v, from[k], W[k]) /\ Ones(v, from[k], W[k]) = 1

\* C5 amended: in what encode_df returns, every categorical field becomes a vector one narrower than the
\* field has distinct labels, with a single 1 at the position of the label's
\* code, and all zero for the label with the last code; a feature vector is
\* 1 + (sum of the five cardinalities, each less one) + 1 long, in the order
\* distance, hour, year, day of week, pickup zone, dropoff zone,
\* passenger_count.
C5_DropLastOneHot ==
    Encoded =>
        LET W == DroppedWidths
            from == [k \in DOMAIN CatCols |-> 1 + SumTo(W, k - 1)]
            total == 1 + SumTo(W, Len(CatCols)) + 1
            fitted == [k \in DOMAIN CatCols |-> Val(labels[CatCols[k]])]
        IN /\ \A k \in DOMAIN CatCols : Len(fitted[k]) = W[k] + 1
           /\ \A i \in DOMAIN data :
                LET v == data[i].features
                IN /\ Len(v) = total
                   /\ v[1] = df[i].dist
                   /\ v[Len(v)] = Val(df[i].passenger_count)
                   /\ \A k \in DOMAIN CatCols :
                        /\ \A p \in 1..W[k] :
                             v[from[k] + p] =
                                IF fitted[k][p] = df[i][CatCols[k]] THEN 1 ELSE 0
                        /\ Ones(v, from[k], W[k]) =
                             IF fitted[k][W[k] + 1] = df[i][CatCols[k]] THEN 0 ELSE 1

\* two rows with different hour buckets: one gets the 1, the other all zeros
C5_Witness ==
    /\ pc = "split" /\ Len(data) = 2 /\ Card(1) = 2
    /\ Ones(data[1].features, 1, 1) = 1 /\ Ones(data[2].features, 1, 1) = 0

Restrict(d, S) == Sample(d, [i \in DOMAIN d |-> IF i \in S THEN 0 ELSE 1], 0, 1)

Split_done == pc \in {"train", "rmse", "done"} \/ (pc = "failed" /\ data # <<>>)

\* C7: whatever the random draws, train_test_split puts every example in
\* exactly one of the two subsets: there is a set S of positions such that the
\* training subset is the examples at S and the evaluation subset those at
\* the other positions, each in input order (none in both, lost or doubled).
C7_SplitIsPartition ==
    Split_done => \E S \in SUBSET DOMAIN data :
        /\ trainingData = Restrict(data, S)
        /\ testData = Restrict(data, DOMAIN data \ S)

\* a subset may be empty: three examples, all of them in the evaluation subset
C7_Witness ==
    pc = "train" /\ Len(data) = 3 /\ trainingData = <<>> /\ Len(testData) = 3

Occurrences(col, l) == Cardinality({i \in DOMAIN col : col[i] = l})

FirstSeen(col, l) == CHOOSE i \in DOMAIN col : col[i] = l /\ \A j \in 1..(i - 1) : col[j] # l

Code(lbls, l) == (CHOOSE i \in DOMAIN lbls : lbls[i] = l) - 1

AllFitted == \A c \in Range(CatCols) : labels[c] # NULL

\* C9, the state part: no row is transformed before all five fits are done,
\* and what a fit counted for a label is the number of rows of df holding it.
C9_FitState ==
    /\ (pc \in {"transform", "split", "train", "rmse", "done"} \/ data # <<>>) => AllFitted
    /\ \A c \in Range(CatCols) : counts[c] # NULL =>
          /\ DOMAIN Val(counts[c]) = Range(Column(df, c))
          /\ \A l \in DOMAIN Val(counts[c]) : Val(counts[c])[l] = Occurrences(Column(df, c), l)

\* C9, the step part: a fitted index is never changed by a later step
C9_FitFrozen ==
    \A c \in Range(CatCols) : labels[c] # NULL => labels'[c] = labels[c]

\* C9: in every run all five indices are fitted before any record is
\* transformed, each fit counts every row of the dataset exactly once, and a
\* fitted index stays as it is through transform, split, training and
\* evaluation.
C9_FitBeforeTransform == []C9_FitState /\ [][C9_FitFrozen]_vars

C9_Witness ==
    /\ pc = "done" /\ AllFitted /\ Len(df) = 3
    /\ \E l \in DOMAIN Val(counts["pickup_zone"]) : Val(counts["pickup_zone"])[l] = 2

Fitted_cols == {c \in Range(CatCols) : labels[c] # NULL}

DenseCodes(c) ==
    /\ Range(Val(labels[c])) = Range(Column(df, c))
    /\ Len(Val(labels[c])) = Cardinality(Range(Column(df, c)))

ByFrequency(c) ==
    LET col == Column(df, c)
        occ == [l \in Range(col) |-> Occurrences(col, l)]
        code == [l \in Range(col) |-> Code(Val(labels[c]), l)]
    IN \A a, b \in Range(col) : occ[a] > occ[b] => code[a] < code[b]

\* C10 as stated: a fit gives the distinct labels the codes 0..cardinality-1,
\* one each, by descending frequency, and of two equally frequent labels the
\* one seen first in the dataset gets the smaller code.
C10_TiesByFirstSeen ==
    \A c \in Fitted_cols :
        /\ DenseCodes(c)
        /\ ByFrequency(c)
        /\ LET col == Column(df, c)
           IN \A a, b \in Range(col) :
                (/\ Occurrences(col, a) = Occurrences(col, b)
                 /\ FirstSeen(col, a) < FirstSeen(col, b))
                    => Code(Val(labels[c]), a) < Code(Val(labels[c]), b)

\* C10 amended: a fit gives the distinct labels the codes 0..cardinality-1,
\* one each, and a label that occurs more often always gets a smaller code;
\* the order of equally frequent labels is the library's, not first-seen.
C10_ByFrequencyOnly ==
    \A c \in Fitted_cols : DenseCodes(c) /\ ByFrequency(c)

\* the hour bucket seen twice has code 0 though it was seen after the other
C10_Witness ==
    /\ pc = "fit_year" /\ Len(df) = 3
    /\ df[1].pickup_hour # df[2].pickup_hour /\ df[2].pickup_hour = df[3].pickup_hour
    /\ Code(Val(labels["pickup_hour"]), df[2].pickup_hour) = 0

====
